---- MODULE Spec2Model ----
(***************************************************************************)
(* Model of the change-analysis pipeline of src/tools.ts.                  *)
(*                                                                         *)
(* Strings are TLA+ strings; the JavaScript string and array methods the   *)
(* code calls (includes, split, join, pop, match with a /^x/gm pattern,    *)
(* template literals) are operators computed the way the runtime computes  *)
(* them.                                                                   *)
(***************************************************************************)
EXTENDS Integers, Sequences, FiniteSets, TLC

\* generateCommitMessage: its inputs, its returned value, where the call stands.
VARIABLES changes, type, result, pc

\* writeMarkdownReview: the filesystem and the invocations in progress.
VARIABLES files, dirs, writers

\* getGitHistory: the repository read and the call in progress.
VARIABLES repository, historyCall

\* getFileChangesInDirectory: the working tree read and the call in progress.
VARIABLES worktree, collector

commitVars == <<changes, type, result, pc>>

writerVars == <<files, dirs, writers>>

historyVars == <<repository, historyCall>>

collectorVars == <<worktree, collector>>

vars == <<changes, type, result, pc, files, dirs, writers,
          repository, historyCall, worktree, collector>>

---------------------------------------------------------------------------
(* Bounds of the model *)

\* Largest number of entries of a ChangeSet handed to generateCommitMessage.
MaxFiles == 4

\* Largest number of writeMarkdownReview calls one caller makes in a row.
MaxWrites == 2

\* Largest number of commits of a repository getGitHistory reads.
MaxCommits == 11

\* Largest whole part of a maxCount a caller supplies.
MaxRequested == 3

\* Largest number of files of a diff summary.
MaxSummary == 3

---------------------------------------------------------------------------
(* JavaScript string and array primitives *)

\* String.prototype.includes
includes(s, sub) ==
    \E i \in 1..(Len(s) - Len(sub) + 1) : SubSeq(s, i, i + Len(sub) - 1) = sub

\* Index of the first occurrence of sub in s, 0 when there is none.
indexOf(s, sub) ==
    IF includes(s, sub)
    THEN CHOOSE i \in 1..(Len(s) - Len(sub) + 1) :
            /\ SubSeq(s, i, i + Len(sub) - 1) = sub
            /\ \A j \in 1..(i - 1) : SubSeq(s, j, j + Len(sub) - 1) # sub
    ELSE 0

\* String.prototype.split with a non-empty separator
RECURSIVE split(_, _)
split(s, sep) ==
    LET i == indexOf(s, sep)
    IN  IF i = 0
        THEN <<s>>
        ELSE <<SubSeq(s, 1, i - 1)>> \o split(SubSeq(s, i + Len(sep), Len(s)), sep)

\* Array.prototype.join
RECURSIVE join(_, _)
join(arr, sep) ==
    IF Len(arr) = 0 THEN ""
    ELSE IF Len(arr) = 1 THEN arr[1]
    ELSE arr[1] \o sep \o join(Tail(arr), sep)

\* Array.prototype.pop (the value it returns)
pop(arr) == arr[Len(arr)]

\* The line terminators after which the m flag lets ^ match.
LineTerminators == {"\n", "\r"}

\* (s.match(/^c/gm)?.length || 0) for a one-character pattern c: the number
\* of positions holding c that start the string or follow a line terminator.
matchLineStart(s, c) ==
    Cardinality({ i \in 1..Len(s) :
        /\ SubSeq(s, i, i) = c
        /\ (i = 1 \/ SubSeq(s, i - 1, i - 1) \in LineTerminators) })

\* Template-literal rendering of a number
numberToString(n) == ToString(n)

---------------------------------------------------------------------------
(* commitMessageSchema *)

CommitTypes == {"feat", "fix", "docs", "style", "refactor", "test", "chore"}

\* The value of an optional field that was not supplied.
Undefined == "<undefined>"

---------------------------------------------------------------------------
(* generateCommitMessage *)

hasNewFeatures(chs) ==
    \E k \in 1..Len(chs) :
        /\ includes(chs[k].diff, "+ ")
        /\ \/ includes(chs[k].diff, "function")
           \/ includes(chs[k].diff, "class")
           \/ includes(chs[k].diff, "export")

hasBugFixes(chs) ==
    \E k \in 1..Len(chs) :
        \/ includes(chs[k].diff, "fix")
        \/ includes(chs[k].diff, "bug")
        \/ includes(chs[k].diff, "error")

hasDocChanges(chs) ==
    \E k \in 1..Len(chs) :
        \/ includes(chs[k].file, "README")
        \/ includes(chs[k].file, ".md")
        \/ includes(chs[k].diff, "@param")
        \/ includes(chs[k].diff, "@returns")

hasTestChanges(chs) ==
    \E k \in 1..Len(chs) :
        \/ includes(chs[k].file, "test")
        \/ includes(chs[k].file, "spec")

\* Mutant of classify: the test predicate is consulted before the fix one.
classify_testBeforeFix(chs) ==
    IF hasNewFeatures(chs) THEN "feat"
    ELSE IF hasTestChanges(chs) THEN "test"
    ELSE IF hasBugFixes(chs) THEN "fix"
    ELSE IF hasDocChanges(chs) THEN "docs"
    ELSE "chore"

\* The heuristic chain of the !suggestedType branch.
classify(chs) ==
    IF hasNewFeatures(chs) THEN "feat"
    ELSE IF hasBugFixes(chs) THEN "fix"
    ELSE IF hasDocChanges(chs) THEN "docs"
    ELSE IF hasTestChanges(chs) THEN "test"
    ELSE "chore"

\* Mutant of suggestedType: the hint only stands in when no heuristic matches.
suggestedType_heuristicsFirst(chs, t) ==
    IF t = Undefined \/ classify(chs) # "chore" THEN classify(chs) ELSE t

suggestedType(chs, t) == IF t = Undefined THEN classify(chs) ELSE t

\* Mutant of fileNames: the paths are joined without the space.
fileNames_noSpace(chs) == join([k \in 1..Len(chs) |-> chs[k].file], ",")

fileNames(chs) == join([k \in 1..Len(chs) |-> chs[k].file], ", ")

RECURSIVE addedLines(_)
addedLines(chs) ==
    IF Len(chs) = 0 THEN 0
    ELSE addedLines(SubSeq(chs, 1, Len(chs) - 1))
            + matchLineStart(chs[Len(chs)].diff, "+")

RECURSIVE removedLines(_)
removedLines(chs) ==
    IF Len(chs) = 0 THEN 0
    ELSE removedLines(SubSeq(chs, 1, Len(chs) - 1))
            + matchLineStart(chs[Len(chs)].diff, "-")

\* Mutant of scope: three files already count as "multiple".
scope_threeIsMultiple(chs) ==
    IF Len(chs) = 1
    THEN split(pop(split(chs[1].file, "/")), ".")[1]
    ELSE IF Len(chs) >= 3
         THEN "multiple"
         ELSE IF Len(split(fileNames(chs), ",")) > 1
              THEN "files"
              ELSE ""

scope(chs) ==
    IF Len(chs) = 1
    THEN split(pop(split(chs[1].file, "/")), ".")[1]
    ELSE IF Len(chs) > 3
         THEN "multiple"
         ELSE IF Len(split(fileNames(chs), ",")) > 1
              THEN "files"
              ELSE ""

scopeText(chs) == IF scope(chs) # "" THEN "(" \o scope(chs) \o ")" ELSE ""

\* Mutant of description: the fix branch is missing.
description_noFixPhrase(st) ==
    IF st = "feat" THEN "add new functionality"
    ELSE IF st = "docs" THEN "update documentation"
    ELSE IF st = "refactor" THEN "improve code structure"
    ELSE IF st = "test" THEN "add/update tests"
    ELSE "update code"

description(st) ==
    IF st = "feat" THEN "add new functionality"
    ELSE IF st = "fix" THEN "resolve issues"
    ELSE IF st = "docs" THEN "update documentation"
    ELSE IF st = "refactor" THEN "improve code structure"
    ELSE IF st = "test" THEN "add/update tests"
    ELSE "update code"

\* Mutant of pluralSuffix: every count but 1 is plural.
pluralSuffix_notOne(n) == IF n # 1 THEN "s" ELSE ""

pluralSuffix(n) == IF n > 1 THEN "s" ELSE ""

\* Mutant of filesChanged: the pieces of the joined names are counted.
filesChanged_joinedPieces(chs) == Len(split(fileNames(chs), ","))

filesChanged(chs) == Len(chs)

commitMessage(chs, t) ==
    suggestedType(chs, t) \o scopeText(chs) \o ": "
        \o description(suggestedType(chs, t))
        \o "\n\n- Modified " \o numberToString(Len(chs)) \o " file"
        \o pluralSuffix(Len(chs))
        \o "\n- Added " \o numberToString(addedLines(chs))
        \o " lines, removed " \o numberToString(removedLines(chs)) \o " lines"
        \o "\n- Files: " \o fileNames(chs)

generateCommitMessage(chs, t) ==
    [ message |-> commitMessage(chs, t),
      type    |-> suggestedType(chs, t),
      stats   |-> [ addedLines   |-> addedLines(chs),
                    removedLines |-> removedLines(chs),
                    filesChanged |-> filesChanged(chs) ] ]

---------------------------------------------------------------------------
(* Inputs: file changes as a caller of the tool hands them over *)

FileChanges ==
    { [file |-> "auth.ts",      diff |-> "+ export function login() {}"],
      [file |-> "a.test.ts",    diff |-> "+ const a = 1;"],
      [file |-> "b.ts",         diff |-> "-old\n+new fix"],
      [file |-> "src/auth.ts",
       diff |-> "--- a/src/auth.ts\n+++ b/src/auth.ts\n-function f() {}\n+ const x = 1;"],
      [file |-> "notes.mdx",    diff |-> " context"],
      [file |-> "README.md",    diff |-> "+hello"],
      [file |-> "c.ts",         diff |-> "+/** @param x */\n+export class C {}"],
      [file |-> ".eslintrc.js", diff |-> " export default a + b;"] }

\* ChangeSets: ordered, a path appears at most once.
ChangeSets ==
    { s \in UNION { [1..n -> FileChanges] : n \in 0..MaxFiles } :
        \A i, j \in 1..Len(s) : i # j => s[i].file # s[j].file }

NoResult ==
    [ message |-> "", type |-> Undefined,
      stats |-> [addedLines |-> 0, removedLines |-> 0, filesChanged |-> 0] ]

---------------------------------------------------------------------------
(* writeMarkdownReview: primitives of path, Date and fs/promises *)

\* Index of the last occurrence of the character c in s, 0 when there is none.
lastIndexOf(s, c) ==
    LET at == { i \in 1..Len(s) : SubSeq(s, i, i) = c }
    IN  IF at = {} THEN 0 ELSE CHOOSE i \in at : \A j \in at : j <= i

\* path.dirname for a path without trailing slashes
dirname(p) ==
    LET i == lastIndexOf(p, "/")
    IN  IF i = 0 THEN "."
        ELSE IF i = 1 THEN "/"
        ELSE SubSeq(p, 1, i - 1)

\* The directories mkdir(dir, { recursive: true }) leaves in existence: dir
\* and every ancestor of it.
mkdirRecursive(dir) ==
    {dir} \cup { SubSeq(dir, 1, i - 1) : i \in { j \in 2..Len(dir) : SubSeq(dir, j, j) = "/" } }

\* new Date().toISOString() at the instants the clock can show.
Timestamps == {"2025-09-16T13:37:57.852Z", "2025-09-16T13:37:58.004Z"}

\* A file that does not exist, and a file holding data.
NoFile == [exists |-> FALSE, data |-> ""]

\* open(path, "w"): the file exists afterwards and is truncated to nothing.
openTruncate(f) == [exists |-> TRUE, data |-> ""]

\* write(fd, data) through a descriptor whose offset is 0: data replaces the
\* first Len(data) characters, what lies beyond them stays.
writeAtStart(f, data) ==
    [exists |-> TRUE, data |-> data \o SubSeq(f.data, Len(data) + 1, Len(f.data))]

\* What a failing mkdir or writeFile rejects with: an Error carrying a
\* message, or a value that is not an Error.
Thrown ==
    { [isError |-> TRUE,  message |-> "EACCES: permission denied"],
      [isError |-> TRUE,  message |-> "ENOSPC: no space left on device"],
      [isError |-> FALSE, message |-> ""] }

NoThrown == [isError |-> FALSE, message |-> "<none>"]

---------------------------------------------------------------------------
(* writeMarkdownReview *)

\* Mutant of markdownContent: one newline after the heading.
markdownContent_noBlankLine(title, content) ==
    IF title # Undefined /\ title # ""
    THEN "# " \o title \o "\n" \o content
    ELSE content

\* title ? `# ${title}\n\n${content}` : content  (an empty title is falsy)
markdownContent(title, content) ==
    IF title # Undefined /\ title # ""
    THEN "# " \o title \o "\n\n" \o content
    ELSE content

fullContent(timestamp, title, content) ==
    "---\ngenerated: " \o timestamp \o "\ntype: code-review\n---\n\n"
        \o markdownContent(title, content) \o "\n"

\* Mutant of stringLength: the final newline is left out of the count.
stringLength_withoutFinalNewline(text) == Len(text) - 1

\* fullContent.length: the number of UTF-16 code units of the string
stringLength(text) == Len(text)

successReturn(filePath, text) ==
    [ success  |-> TRUE,
      filePath |-> filePath,
      size     |-> stringLength(text),
      error    |-> Undefined,
      message  |-> "Successfully wrote " \o numberToString(stringLength(text))
                        \o " characters to " \o filePath ]

\* error instanceof Error ? error.message : "Unknown error occurred"
errorMessage(thrown) ==
    IF thrown.isError THEN thrown.message ELSE "Unknown error occurred"

failureReturn(filePath, thrown) ==
    [ success  |-> FALSE,
      filePath |-> filePath,
      size     |-> 0,
      error    |-> errorMessage(thrown),
      message  |-> Undefined ]

\* The value of an invocation that has not returned.
NoReturn ==
    [success |-> FALSE, filePath |-> "", size |-> 0, error |-> Undefined,
     message |-> Undefined]

\* Mutant of catchClause: the rejection leaves the function.
catchClause_rethrow(w, thrown) ==
    [w EXCEPT !.pc = "raised", !.thrown = thrown]

\* catch (error) { return { success: false, filePath, error: ... } }
catchClause(w, thrown) ==
    [w EXCEPT !.pc = "returned", !.thrown = thrown,
              !.ret = failureReturn(w.filePath, thrown)]

\* Inputs of writeMarkdownSchema
WriterPaths == {"reviews/r.md", "out.md"}

\* In a text of the model "~" stands for the letter e with acute accent
\* (U+00E9): one UTF-16 code unit, two bytes in UTF-8.
WriterContents == {"ok", "Looks good.\n---\n# Notes\n", "caf~"}

WriterTitles == {Undefined, "", "Review"}

\* An invocation entered with its arguments, nothing done yet.
newCall(filePath, content, title, earlier) ==
    [ pc |-> "mkdir", filePath |-> filePath, content |-> content, title |-> title,
      timestamp |-> "", fullContent |-> "", thrown |-> NoThrown,
      ret |-> NoReturn, earlier |-> earlier ]

NoCall == [newCall("", "", Undefined, <<>>) EXCEPT !.pc = "off"]

WriterIds == {1, 2}

\* await mkdir(dir, { recursive: true }) succeeds; the text is assembled.
MkdirOk(p) ==
    /\ writers[p].pc = "mkdir"
    /\ dirs' = dirs \cup mkdirRecursive(dirname(writers[p].filePath))
    /\ \E ts \in Timestamps :
        writers' = [writers EXCEPT
            ![p].pc = "open",
            ![p].timestamp = ts,
            ![p].fullContent = fullContent(ts, writers[p].title, writers[p].content)]
    /\ UNCHANGED files
    /\ UNCHANGED <<commitVars, historyVars, collectorVars>>

\* await mkdir(...) rejects.
MkdirFails(p) ==
    /\ writers[p].pc = "mkdir"
    /\ \E e \in Thrown : writers' = [writers EXCEPT ![p] = catchClause(writers[p], e)]
    /\ UNCHANGED <<files, dirs>>
    /\ UNCHANGED <<commitVars, historyVars, collectorVars>>

\* Mutant of openFile: the file is opened without truncation.
openFile_keep(f) == [exists |-> TRUE, data |-> f.data]

\* writeFile, first half: the file is opened with flag "w".
openFile(f) == openTruncate(f)

OpenOk(p) ==
    /\ writers[p].pc = "open"
    /\ files' = [files EXCEPT ![writers[p].filePath] = openFile(@)]
    /\ writers' = [writers EXCEPT ![p].pc = "write"]
    /\ UNCHANGED dirs
    /\ UNCHANGED <<commitVars, historyVars, collectorVars>>

OpenFails(p) ==
    /\ writers[p].pc = "open"
    /\ \E e \in Thrown : writers' = [writers EXCEPT ![p] = catchClause(writers[p], e)]
    /\ UNCHANGED <<files, dirs>>
    /\ UNCHANGED <<commitVars, historyVars, collectorVars>>

\* writeFile, second half: the text is written, the file closed, and the
\* function returns its success value.
WriteOk(p) ==
    /\ writers[p].pc = "write"
    /\ files' = [files EXCEPT
            ![writers[p].filePath] = writeAtStart(@, writers[p].fullContent)]
    /\ writers' = [writers EXCEPT
            ![p].pc = "returned",
            ![p].ret = successReturn(writers[p].filePath, writers[p].fullContent)]
    /\ UNCHANGED dirs
    /\ UNCHANGED <<commitVars, historyVars, collectorVars>>

WriteFails(p) ==
    /\ writers[p].pc = "write"
    /\ \E e \in Thrown : writers' = [writers EXCEPT ![p] = catchClause(writers[p], e)]
    /\ UNCHANGED <<files, dirs>>
    /\ UNCHANGED <<commitVars, historyVars, collectorVars>>

\* The caller keeps the value returned and calls writeMarkdownReview again.
CallAgain(p) ==
    /\ writers[p].pc = "returned"
    /\ Len(writers[p].earlier) + 1 < MaxWrites
    /\ \E fp \in WriterPaths, c \in WriterContents, t \in WriterTitles :
        writers' = [writers EXCEPT
            ![p] = newCall(fp, c, t, Append(writers[p].earlier, writers[p].ret))]
    /\ UNCHANGED <<files, dirs>>
    /\ UNCHANGED <<commitVars, historyVars, collectorVars>>

\* The filesystem before any review was written.
WriterFsInit ==
    /\ files = [fp \in WriterPaths |-> NoFile]
    /\ dirs = {"."}

\* No writeMarkdownReview call is in progress.
WriterIdle ==
    /\ WriterFsInit
    /\ writers = [p \in WriterIds |-> NoCall]

---------------------------------------------------------------------------
(* getGitHistory *)

\* A number as the schema sees it: whole, or whole + 1/2 when plusHalf.
Number(whole, plusHalf) == [kind |-> "number", whole |-> whole, plusHalf |-> plusHalf]

\* A maxCount that was omitted, and one that is not a number.
OmittedNumber == [kind |-> "undefined", whole |-> 0, plusHalf |-> FALSE]

NotANumber == [kind |-> "string", whole |-> 0, plusHalf |-> FALSE]

DefaultMaxCount == 10

\* z.number(): any number passes; .optional().default(10) lets undefined pass.
gitHistorySchemaAccepts(raw) == raw.kind \in {"number", "undefined"}

\* The maxCount the schema hands to getGitHistory.
gitHistorySchemaParse(raw) ==
    IF raw.kind = "undefined" THEN Number(DefaultMaxCount, FALSE) ELSE raw

\* The entry of index i (1 is the oldest) in the log of the repository.
logEntry(i) ==
    [ hash         |-> "h" \o ToString(i),
      date         |-> "2025-09-" \o ToString(10 + i) \o "T10:00:00+00:00",
      message      |-> "commit " \o ToString(i),
      refs         |-> "",
      body         |-> "",
      author_name  |-> "dev" \o ToString(i % 2),
      author_email |-> "dev" \o ToString(i % 2) \o "@example.com" ]

\* The complete log of a repository of n commits, newest first.
fullLog(n) == [k \in 1..n |-> logEntry(n + 1 - k)]

\* Whether git.log({ maxCount }) rejects: the directory is no repository,
\* the repository has no commit yet, or the limit is not an integer.
logRejects(repo, maxCount) ==
    \/ ~repo.isRepository
    \/ repo.commits = 0
    \/ maxCount.plusHalf

\* log.all of git.log({ maxCount }): a positive limit is passed on as
\* --max-count and cuts the log; a zero limit is not passed on and a negative
\* one is no limit to git, so both yield the complete log.
logAll(repo, maxCount) ==
    IF maxCount.whole >= 1
    THEN SubSeq(fullLog(repo.commits), 1,
                IF maxCount.whole < repo.commits THEN maxCount.whole ELSE repo.commits)
    ELSE fullLog(repo.commits)

\* The object log.all.map builds of a commit.
commitRecord(commit) ==
    [ hash    |-> commit.hash,
      date    |-> commit.date,
      message |-> commit.message,
      author  |-> commit.author_name,
      email   |-> commit.author_email ]

historyReturn(all) ==
    [ commits |-> [k \in 1..Len(all) |-> commitRecord(all[k])], error |-> Undefined ]

\* error instanceof Error ? error.message : "Failed to get git history"
historyErrorMessage(thrown) ==
    IF thrown.isError THEN thrown.message ELSE "Failed to get git history"

\* Mutant of historyCatch: the rejection leaves the function.
historyCatch_rethrow(call, thrown) ==
    [call EXCEPT !.pc = "raised", !.thrown = thrown]

\* catch (error) { return { commits: [], error: ... } }
historyCatch(call, thrown) ==
    [call EXCEPT !.pc = "returned", !.thrown = thrown,
                 !.ret = [commits |-> <<>>, error |-> historyErrorMessage(thrown)]]

\* What a failing simpleGit or git.log rejects with.
GitThrown ==
    { [isError |-> TRUE,  message |-> "fatal: not a git repository"],
      [isError |-> FALSE, message |-> ""] }

NoHistoryReturn == [commits |-> <<>>, error |-> Undefined]

\* A call of the tool with a raw maxCount, before the schema has seen it.
newHistoryCall(raw) ==
    [ pc |-> "schema", raw |-> raw, maxCount |-> OmittedNumber,
      logQueries |-> <<>>, thrown |-> NoThrown, ret |-> NoHistoryReturn ]

Repositories ==
    { [isRepository |-> r, commits |-> n] : r \in BOOLEAN, n \in 0..MaxCommits }

RawMaxCounts ==
    { Number(w, h) : w \in (-1)..MaxRequested, h \in BOOLEAN }
        \cup {OmittedNumber, NotANumber}

\* inputSchema lets the input through and execute is entered.
SchemaAccepts ==
    /\ historyCall.pc = "schema"
    /\ gitHistorySchemaAccepts(historyCall.raw)
    /\ historyCall' = [historyCall EXCEPT
            !.pc = "log", !.maxCount = gitHistorySchemaParse(historyCall.raw)]
    /\ UNCHANGED repository
    /\ UNCHANGED <<commitVars, writerVars, collectorVars>>

\* inputSchema turns the input down; execute is never entered.
SchemaRejects ==
    /\ historyCall.pc = "schema"
    /\ ~gitHistorySchemaAccepts(historyCall.raw)
    /\ historyCall' = [historyCall EXCEPT !.pc = "rejected"]
    /\ UNCHANGED repository
    /\ UNCHANGED <<commitVars, writerVars, collectorVars>>

\* await git.log({ maxCount }) resolves and the commits are returned.
LogOk ==
    /\ historyCall.pc = "log"
    /\ ~logRejects(repository, historyCall.maxCount)
    /\ historyCall' = [historyCall EXCEPT
            !.pc = "returned",
            !.logQueries = Append(@, historyCall.maxCount),
            !.ret = historyReturn(logAll(repository, historyCall.maxCount))]
    /\ UNCHANGED repository
    /\ UNCHANGED <<commitVars, writerVars, collectorVars>>

\* await git.log({ maxCount }) rejects.
LogFails ==
    /\ historyCall.pc = "log"
    /\ logRejects(repository, historyCall.maxCount)
    /\ \E e \in GitThrown :
        historyCall' = [historyCatch(historyCall, e) EXCEPT
                            !.logQueries = Append(@, historyCall.maxCount)]
    /\ UNCHANGED repository
    /\ UNCHANGED <<commitVars, writerVars, collectorVars>>

\* No getGitHistory call is in progress.
HistoryIdle ==
    /\ repository = [isRepository |-> FALSE, commits |-> 0]
    /\ historyCall = [newHistoryCall(OmittedNumber) EXCEPT !.pc = "off"]

---------------------------------------------------------------------------
(* getFileChangesInDirectory *)

excludeFiles == <<"dist", "bun.lock">>

\* Mutant of isExcluded: a path is excluded when it begins with an entry.
isExcluded_byPrefix(file) ==
    \E k \in 1..Len(excludeFiles) :
        /\ Len(file) >= Len(excludeFiles[k])
        /\ SubSeq(file, 1, Len(excludeFiles[k])) = excludeFiles[k]

\* excludeFiles.includes(file.file): an element equal to the path
isExcluded(file) == \E k \in 1..Len(excludeFiles) : excludeFiles[k] = file

\* The text git.diff(["--", file]) yields: the diff limited to that path.
diffText(file) ==
    "diff --git a/" \o file \o " b/" \o file \o "\n--- a/" \o file
        \o "\n+++ b/" \o file \o "\n+changed"

\* Paths a diff summary can report; "dist" is reported when it is a file or
\* a submodule of that name.
SummaryPaths == {"src/a.ts", "dist", "bun.lock", "dist/index.js", "README.md"}

\* The files of a diff summary: every path once.
Summaries ==
    { f \in UNION { [1..n -> SummaryPaths] : n \in 0..MaxSummary } :
        \A i, j \in 1..Len(f) : i # j => f[i] # f[j] }

\* A call entered, no query made yet.
newCollectorCall ==
    [ pc |-> "summary", index |-> 1, diffs |-> <<>>,
      summaryQueries |-> 0, diffQueries |-> <<>>,
      thrown |-> NoThrown, ret |-> <<>> ]

\* await git.diffSummary() resolves; the loop starts at the first file.
DiffSummaryOk ==
    /\ collector.pc = "summary"
    /\ collector' = [collector EXCEPT !.pc = "loop", !.summaryQueries = @ + 1]
    /\ UNCHANGED worktree
    /\ UNCHANGED <<commitVars, writerVars, historyVars>>

\* await git.diffSummary() rejects; nothing catches it.
DiffSummaryFails ==
    /\ collector.pc = "summary"
    /\ \E e \in GitThrown :
        collector' = [collector EXCEPT
            !.pc = "raised", !.thrown = e, !.summaryQueries = @ + 1]
    /\ UNCHANGED worktree
    /\ UNCHANGED <<commitVars, writerVars, historyVars>>

\* if (excludeFiles.includes(file.file)) continue;
SkipExcluded ==
    /\ collector.pc = "loop"
    /\ collector.index <= Len(worktree.files)
    /\ isExcluded(worktree.files[collector.index])
    /\ collector' = [collector EXCEPT !.index = @ + 1]
    /\ UNCHANGED worktree
    /\ UNCHANGED <<commitVars, writerVars, historyVars>>

\* await git.diff(["--", file.file]) resolves; diffs.push({ file, diff }).
DiffOk ==
    /\ collector.pc = "loop"
    /\ collector.index <= Len(worktree.files)
    /\ ~isExcluded(worktree.files[collector.index])
    /\ LET file == worktree.files[collector.index]
       IN  collector' = [collector EXCEPT
                !.index = @ + 1,
                !.diffQueries = Append(@, file),
                !.diffs = Append(@, [file |-> file, diff |-> diffText(file)])]
    /\ UNCHANGED worktree
    /\ UNCHANGED <<commitVars, writerVars, historyVars>>

\* Mutant of DiffFails: the rejection is swallowed and the diffs collected
\* so far are returned.
DiffFails_returnsPartial ==
    /\ collector.pc = "loop"
    /\ collector.index <= Len(worktree.files)
    /\ ~isExcluded(worktree.files[collector.index])
    /\ \E e \in GitThrown :
        collector' = [collector EXCEPT
            !.pc = "returned", !.thrown = e, !.ret = collector.diffs,
            !.diffQueries = Append(@, worktree.files[collector.index])]
    /\ UNCHANGED worktree
    /\ UNCHANGED <<commitVars, writerVars, historyVars>>

\* await git.diff(["--", file.file]) rejects; nothing catches it.
DiffFails ==
    /\ collector.pc = "loop"
    /\ collector.index <= Len(worktree.files)
    /\ ~isExcluded(worktree.files[collector.index])
    /\ \E e \in GitThrown :
        collector' = [collector EXCEPT
            !.pc = "raised", !.thrown = e,
            !.diffQueries = Append(@, worktree.files[collector.index])]
    /\ UNCHANGED worktree
    /\ UNCHANGED <<commitVars, writerVars, historyVars>>

\* return diffs;
ReturnDiffs ==
    /\ collector.pc = "loop"
    /\ collector.index > Len(worktree.files)
    /\ collector' = [collector EXCEPT !.pc = "returned", !.ret = collector.diffs]
    /\ UNCHANGED worktree
    /\ UNCHANGED <<commitVars, writerVars, historyVars>>

\* No getFileChangesInDirectory call is in progress.
CollectorIdle ==
    /\ worktree = [files |-> <<>>]
    /\ collector = [newCollectorCall EXCEPT !.pc = "off"]

CommitIdle ==
    /\ changes = <<>>
    /\ type = Undefined
    /\ result = NoResult
    /\ pc = "idle"

---------------------------------------------------------------------------
(* Specification of the commit-message tool *)

Init ==
    /\ changes \in ChangeSets
    /\ type \in CommitTypes \cup {Undefined}
    /\ result = NoResult
    /\ pc = "call"
    /\ WriterIdle
    /\ HistoryIdle
    /\ CollectorIdle

GenerateCommitMessage ==
    /\ pc = "call"
    /\ result' = generateCommitMessage(changes, type)
    /\ pc' = "done"
    /\ UNCHANGED <<changes, type>>
    /\ UNCHANGED <<writerVars, historyVars, collectorVars>>

Next == GenerateCommitMessage

Spec == Init /\ [][Next]_vars

---------------------------------------------------------------------------
(* Specifications of writeMarkdownReview *)

\* One caller, one call after the other.
InitWriterSeq ==
    /\ CommitIdle
    /\ HistoryIdle
    /\ CollectorIdle
    /\ WriterFsInit
    /\ \E fp \in WriterPaths, c \in WriterContents, t \in WriterTitles :
        writers = [p \in WriterIds |->
                        IF p = 1 THEN newCall(fp, c, t, <<>>) ELSE NoCall]

NextWriterSeq ==
    \/ MkdirOk(1)
    \/ MkdirFails(1)
    \/ OpenOk(1)
    \/ OpenFails(1)
    \/ WriteOk(1)
    \/ WriteFails(1)
    \/ CallAgain(1)

SpecWriterSeq == InitWriterSeq /\ [][NextWriterSeq]_vars

\* Two calls in flight at once, each made once.
InitWriterConc ==
    /\ CommitIdle
    /\ HistoryIdle
    /\ CollectorIdle
    /\ WriterFsInit
    /\ \E fp1, fp2 \in WriterPaths, c1, c2 \in WriterContents, t1, t2 \in WriterTitles :
        writers = [p \in WriterIds |->
                        IF p = 1 THEN newCall(fp1, c1, t1, <<>>)
                                 ELSE newCall(fp2, c2, t2, <<>>)]

NextWriterConc ==
    \/ \E p \in WriterIds : MkdirOk(p)
    \/ \E p \in WriterIds : MkdirFails(p)
    \/ \E p \in WriterIds : OpenOk(p)
    \/ \E p \in WriterIds : OpenFails(p)
    \/ \E p \in WriterIds : WriteOk(p)
    \/ \E p \in WriterIds : WriteFails(p)

SpecWriterConc == InitWriterConc /\ [][NextWriterConc]_vars

---------------------------------------------------------------------------
(* Specification of getGitHistory *)

InitHistory ==
    /\ CommitIdle
    /\ WriterIdle
    /\ CollectorIdle
    /\ repository \in Repositories
    /\ \E raw \in RawMaxCounts : historyCall = newHistoryCall(raw)

NextHistory ==
    \/ SchemaAccepts
    \/ SchemaRejects
    \/ LogOk
    \/ LogFails

SpecHistory == InitHistory /\ [][NextHistory]_vars

---------------------------------------------------------------------------
(* Specification of getFileChangesInDirectory *)

InitCollector ==
    /\ CommitIdle
    /\ WriterIdle
    /\ HistoryIdle
    /\ \E f \in Summaries : worktree = [files |-> f]
    /\ collector = newCollectorCall

NextCollector ==
    \/ DiffSummaryOk
    \/ DiffSummaryFails
    \/ SkipExcluded
    \/ DiffOk
    \/ DiffFails
    \/ ReturnDiffs

SpecCollector == InitCollector /\ [][NextCollector]_vars

---------------------------------------------------------------------------
(* Specification of the two git tools, each called once on its directory *)

\* The maxCount inputs of the history call: omitted, not a number, and a
\* number git turns down.
GitToolsMaxCounts == {OmittedNumber, NotANumber, Number(1, TRUE)}

InitGitTools ==
    /\ CommitIdle
    /\ WriterIdle
    /\ repository \in Repositories
    /\ \E raw \in GitToolsMaxCounts : historyCall = newHistoryCall(raw)
    /\ \E f \in Summaries : worktree = [files |-> f]
    /\ collector = newCollectorCall

NextGitTools ==
    \/ SchemaAccepts
    \/ SchemaRejects
    \/ LogOk
    \/ LogFails
    \/ DiffSummaryOk
    \/ DiffSummaryFails
    \/ SkipExcluded
    \/ DiffOk
    \/ DiffFails
    \/ ReturnDiffs

SpecGitTools == InitGitTools /\ [][NextGitTools]_vars

---------------------------------------------------------------------------
(* Vocabulary of the properties, defined on the text itself *)

StartsWith(s, p) == Len(s) >= Len(p) /\ SubSeq(s, 1, Len(p)) = p

EndsWith(s, p) == Len(s) >= Len(p) /\ SubSeq(s, Len(s) - Len(p) + 1, Len(s)) = p

\* The lines of a text, cut at every newline.
Lines(s) == split(s, "\n")

\* The first line of the generated message.
Header == Lines(result.message)[1]

\* Positions of character c in s.
Positions(s, c) == { i \in 1..Len(s) : SubSeq(s, i, i) = c }

\* The part of a path after its last slash.
FinalSegment(p) ==
    LET sl == Positions(p, "/")
    IN  IF sl = {} THEN p
        ELSE SubSeq(p, (CHOOSE i \in sl : \A j \in sl : j <= i) + 1, Len(p))

\* The part of a name before its first period.
BeforeFirstPeriod(n) ==
    LET dots == Positions(n, ".")
    IN  IF dots = {} THEN n
        ELSE SubSeq(n, 1, (CHOOSE i \in dots : \A j \in dots : i <= j) - 1)

\* The parenthetical segment of a header for a scope; nothing for no scope.
ScopeSegment(sc) == IF sc = "" THEN "" ELSE "(" \o sc \o ")"

\* The paths of a ChangeSet, in its order, separated by ", ".
RECURSIVE PathList(_)
PathList(chs) ==
    IF Len(chs) = 0 THEN ""
    ELSE IF Len(chs) = 1 THEN chs[1].file
    ELSE PathList(SubSeq(chs, 1, Len(chs) - 1)) \o ", " \o chs[Len(chs)].file

\* Number of lines of a diff that begin with exactly one marker m.
SingleMarkerLines(d, m) ==
    LET ls == Lines(d)
    IN  Cardinality({ i \in 1..Len(ls) :
            StartsWith(ls[i], m) /\ ~StartsWith(ls[i], m \o m) })

RECURSIVE TotalSingleMarkerLines(_, _)
TotalSingleMarkerLines(chs, m) ==
    IF Len(chs) = 0 THEN 0
    ELSE SingleMarkerLines(chs[1].diff, m) + TotalSingleMarkerLines(Tail(chs), m)

FeatureKeywords == {"function", "class", "export"}

\* A diff has an added line whose own content mentions a feature keyword.
HasAddedKeywordLine(d) ==
    LET ls == Lines(d)
    IN  \E i \in 1..Len(ls) :
            /\ StartsWith(ls[i], "+")
            /\ \E w \in FeatureKeywords : includes(ls[i], w)

\* A path names a markdown file or a README; a diff carries a doc tag.
IsDocChange(ch) ==
    \/ includes(ch.file, "README")
    \/ EndsWith(ch.file, ".md")
    \/ includes(ch.diff, "@param")
    \/ includes(ch.diff, "@returns")

---------------------------------------------------------------------------
(* Claims about generateCommitMessage *)

\* C1: a supplied hint is returned unchanged as the category and is the
\* prefix of the message header, whatever the heuristics say of the ChangeSet.
Thm_C1_HintWins ==
    (pc = "done" /\ type # Undefined) =>
        /\ result.type = type
        /\ \/ StartsWith(Header, type \o ": ")
           \/ StartsWith(Header, type \o "(")

Wit_C1_HintAgainstHeuristics ==
    /\ pc = "done"
    /\ type = "style"
    /\ hasNewFeatures(changes)
    /\ result.type = "style"

Wit_C1_HintOnEmpty ==
    pc = "done" /\ changes = <<>> /\ type = "refactor" /\ result.type = "refactor"

\* C2: with no hint the category is the first of feat, fix, docs, test whose
\* predicate holds and chore when none holds; a.test.ts together with a b.ts
\* whose diff contains "fix" and no feature markers is classified fix.
PriorityOrder == <<"feat", "fix", "docs", "test">>

PredicateOf(c, chs) ==
    CASE c = "feat" -> hasNewFeatures(chs)
      [] c = "fix"  -> hasBugFixes(chs)
      [] c = "docs" -> hasDocChanges(chs)
      [] c = "test" -> hasTestChanges(chs)

FirstMatching(chs) ==
    LET hits == { i \in 1..Len(PriorityOrder) : PredicateOf(PriorityOrder[i], chs) }
    IN  IF hits = {} THEN "chore"
        ELSE PriorityOrder[CHOOSE i \in hits : \A j \in hits : i <= j]

IsFixBesideTestScenario ==
    /\ Len(changes) = 2
    /\ changes[1].file = "a.test.ts"
    /\ changes[2].file = "b.ts"
    /\ includes(changes[2].diff, "fix")
    /\ ~hasNewFeatures(changes)

Thm_C2_PriorityOrder ==
    (pc = "done" /\ type = Undefined) =>
        /\ result.type = FirstMatching(changes)
        /\ IsFixBesideTestScenario => result.type = "fix"

Wit_C2_FixBeforeTest ==
    /\ pc = "done"
    /\ type = Undefined
    /\ IsFixBesideTestScenario
    /\ hasTestChanges(changes)
    /\ result.type = "fix"

\* C3: with no hint the ChangeSet is feat exactly when some diff has an added
\* line (beginning with "+") whose own content mentions function, class or
\* export; keywords on removed or context lines and a "+ " in the middle of
\* a line do not make it feat.
CE_C3_FeatNeedsAddedKeywordLine ==
    (pc = "done" /\ type = Undefined) =>
        (result.type = "feat" <=>
            \E k \in 1..Len(changes) : HasAddedKeywordLine(changes[k].diff))

\* C4: with no hint the docs predicate holds exactly when a path contains
\* "README" or ends in ".md", or a diff contains "@param" or "@returns"; it is
\* observed where neither feat nor fix takes priority.
CE_C4_DocsNeedsMarkdownExtension ==
    (pc = "done" /\ type = Undefined /\ result.type \notin {"feat", "fix"}) =>
        (result.type = "docs" <=>
            \E k \in 1..Len(changes) : IsDocChange(changes[k]))

\* C5: stats.added is the number of lines over all diffs that begin with a
\* single "+", stats.removed the number that begin with a single "-"; header
\* lines such as "+++ b/file" and "--- a/file" are counted in neither.
CE_C5_HeaderLinesNotCounted ==
    pc = "done" =>
        /\ result.stats.addedLines = TotalSingleMarkerLines(changes, "+")
        /\ result.stats.removedLines = TotalSingleMarkerLines(changes, "-")

\* C6 as claimed: one file gives the part of its final path segment before
\* the first period, more than three files give "multiple", two or three
\* files with more than one distinct file name give "files", and anything
\* else gives no scope and no parenthetical segment.
FileNamesOf(chs) == { FinalSegment(chs[k].file) : k \in 1..Len(chs) }

ClaimedScope(chs) ==
    IF Len(chs) = 1 THEN BeforeFirstPeriod(FinalSegment(chs[1].file))
    ELSE IF Len(chs) > 3 THEN "multiple"
    ELSE IF Cardinality(FileNamesOf(chs)) > 1 THEN "files"
    ELSE ""

CE_C6_ScopeNeedsDistinctNames ==
    pc = "done" =>
        StartsWith(Header, result.type \o ScopeSegment(ClaimedScope(changes)) \o ": ")

\* C6 as amended: one file gives the part of its final path segment before
\* the first period ("src/auth.ts" gives "auth"), more than three files give
\* "multiple", two or three files give "files" whether or not their file
\* names are distinct, and no file gives no scope; an empty scope leaves the
\* header without a parenthetical segment.
AmendedScope(chs) ==
    IF Len(chs) = 1 THEN BeforeFirstPeriod(FinalSegment(chs[1].file))
    ELSE IF Len(chs) > 3 THEN "multiple"
    ELSE IF Len(chs) \in {2, 3} THEN "files"
    ELSE ""

Thm_C6_Scope ==
    pc = "done" =>
        /\ StartsWith(Header, result.type \o ScopeSegment(AmendedScope(changes)) \o ": ")
        /\ (Len(changes) = 1 /\ changes[1].file = "src/auth.ts") =>
                StartsWith(Header, result.type \o "(auth): ")
        /\ AmendedScope(changes) = "" => ~includes(Header, "(")

Wit_C6_SameNameTwoFiles ==
    /\ pc = "done"
    /\ Len(changes) = 2
    /\ Cardinality(FileNamesOf(changes)) = 1
    /\ StartsWith(Header, result.type \o "(files): ")

Wit_C6_SingleFile ==
    /\ pc = "done"
    /\ Len(changes) = 1
    /\ changes[1].file = "src/auth.ts"
    /\ StartsWith(Header, result.type \o "(auth): ")

Wit_C6_Multiple ==
    pc = "done" /\ Len(changes) > 3 /\ StartsWith(Header, result.type \o "(multiple): ")

\* C7: the message is the header line, one blank line and three bullet
\* lines: the modified-file count ("file" for 1, "files" for more than 1),
\* the added and removed counts, and the paths joined by ", " in ChangeSet
\* order; nothing follows the third bullet.
FileWord(n) == IF n = 1 THEN {"file"} ELSE IF n > 1 THEN {"files"} ELSE {"file", "files"}

Thm_C7_MessageFormat ==
    pc = "done" =>
        LET ls == Lines(result.message)
        IN  /\ Len(ls) = 5
            /\ ls[1] # ""
            /\ ls[2] = ""
            /\ \E w \in FileWord(Len(changes)) :
                    ls[3] = "- Modified " \o ToString(Len(changes)) \o " " \o w
            /\ ls[4] = "- Added " \o ToString(result.stats.addedLines)
                        \o " lines, removed " \o ToString(result.stats.removedLines)
                        \o " lines"
            /\ ls[5] = "- Files: " \o PathList(changes)

Wit_C7_ThreeFiles ==
    /\ pc = "done"
    /\ Len(changes) = 3
    /\ changes[1].file = "src/auth.ts"
    /\ changes[2].file = "README.md"
    /\ changes[3].file = "b.ts"
    /\ Lines(result.message)[3] = "- Modified 3 files"
    /\ Lines(result.message)[5] = "- Files: src/auth.ts, README.md, b.ts"

Wit_C7_OneFile ==
    pc = "done" /\ Len(changes) = 1 /\ Lines(result.message)[3] = "- Modified 1 file"

\* C8: the description of the header is fixed by the resolved category: feat
\* gives "add new functionality", fix "resolve issues", style and chore
\* "update code"; [{auth.ts, "+ export function login() {}"}] with no hint
\* gives feat and the header "feat(auth): add new functionality".
ClaimedPhrase(c) ==
    CASE c = "feat" -> "add new functionality"
      [] c = "fix"  -> "resolve issues"
      [] c \in {"style", "chore"} -> "update code"

IsLoginScenario ==
    /\ changes = <<[file |-> "auth.ts", diff |-> "+ export function login() {}"]>>
    /\ type = Undefined

Thm_C8_Description ==
    pc = "done" =>
        /\ result.type \in {"feat", "fix", "style", "chore"} =>
                EndsWith(Header, ": " \o ClaimedPhrase(result.type))
        /\ IsLoginScenario =>
                /\ result.type = "feat"
                /\ Header = "feat(auth): add new functionality"

Wit_C8_LoginScenario ==
    pc = "done" /\ IsLoginScenario /\ Header = "feat(auth): add new functionality"

Wit_C8_FixPhrase ==
    pc = "done" /\ type = Undefined /\ result.type = "fix"
        /\ EndsWith(Header, ": resolve issues")

Wit_C8_StylePhrase ==
    pc = "done" /\ type = "style" /\ EndsWith(Header, ": update code")

\* C9: generation yields a result for every ChangeSet; for the empty
\* ChangeSet with no hint the category is chore, the header is exactly
\* "chore: update code", the count is worded "0 file", added and removed are
\* 0 and the file list is empty.
Thm_C9_EmptyChangeSet ==
    pc = "done" =>
        /\ result.type \in CommitTypes
        /\ result.message # ""
        /\ (changes = <<>> /\ type = Undefined) =>
                /\ result.type = "chore"
                /\ Header = "chore: update code"
                /\ Lines(result.message)[3] = "- Modified 0 file"
                /\ result.stats = [addedLines |-> 0, removedLines |-> 0, filesChanged |-> 0]
                /\ Lines(result.message)[4] = "- Added 0 lines, removed 0 lines"
                /\ Lines(result.message)[5] = "- Files: "

Wit_C9_EmptyChangeSet ==
    pc = "done" /\ changes = <<>> /\ type = Undefined /\ Header = "chore: update code"

\* C10: the returned stats have filesChanged equal to the number of entries
\* of the ChangeSet, and added and removed are never negative.
Thm_C10_Stats ==
    pc = "done" =>
        /\ result.stats.filesChanged = Len(changes)
        /\ result.stats.addedLines >= 0
        /\ result.stats.removedLines >= 0

Wit_C10_Stats ==
    /\ pc = "done"
    /\ Len(changes) = 3
    /\ result.stats.filesChanged = 3
    /\ result.stats.addedLines > 0
    /\ result.stats.removedLines > 0

Wit_C10_EmptyStats ==
    pc = "done" /\ changes = <<>> /\ result.stats.filesChanged = 0

---------------------------------------------------------------------------
(* Vocabulary of the properties of writeMarkdownReview *)

\* The text read back from a path.
FileText(fp) == files[fp].data

\* What a reader gets from a text that lacks the block it strips.
Malformed == "<malformed>"

\* The text after the metadata block: the delimiter line, the generated
\* line, the type line, the delimiter line and the blank line.
StripMetadata(text) ==
    LET opening == "---\ngenerated: "
        closing == "\ntype: code-review\n---\n\n"
        afterOpening == SubSeq(text, Len(opening) + 1, Len(text))
        lineEnd == indexOf(afterOpening, "\n")
        fromLineEnd == SubSeq(afterOpening, lineEnd, Len(afterOpening))
    IN  IF ~StartsWith(text, opening) \/ lineEnd = 0 \/ ~StartsWith(fromLineEnd, closing)
        THEN Malformed
        ELSE SubSeq(fromLineEnd, Len(closing) + 1, Len(fromLineEnd))

\* The text after the heading block "# <title>" and its blank line.
StripTitle(body, title) ==
    LET heading == "# " \o title \o "\n\n"
    IN  IF StartsWith(body, heading)
        THEN SubSeq(body, Len(heading) + 1, Len(body))
        ELSE Malformed

\* Characters of the model's alphabet that UTF-8 encodes in two bytes: "~"
\* stands for U+00E9.
TwoByteCharacters == {"~"}

\* Number of bytes of the UTF-8 encoding of a text.
Utf8ByteLength(text) ==
    Len(text) + Cardinality({ i \in 1..Len(text) : SubSeq(text, i, i) \in TwoByteCharacters })

\* A call of writeMarkdownReview that has returned success.
ReturnedSuccess(p) == writers[p].pc = "returned" /\ writers[p].ret.success

\* The text a call is to leave in its file, piece by piece.
AssembledText(w) ==
    "---\n" \o "generated: " \o w.timestamp \o "\n" \o "type: code-review\n" \o "---\n" \o "\n"
        \o (IF w.title \in {Undefined, ""} THEN "" ELSE "# " \o w.title \o "\n" \o "\n")
        \o w.content \o "\n"

---------------------------------------------------------------------------
(* Claims about writeMarkdownReview *)

\* C11 as claimed: after a successful write with a supplied title, the file's
\* text with the metadata block and the title heading block stripped from the
\* front equals the original content exactly.
CE_C11_RoundTripExact ==
    (ReturnedSuccess(1) /\ writers[1].title # Undefined) =>
        StripTitle(StripMetadata(FileText(writers[1].filePath)), writers[1].title)
            = writers[1].content

\* C11 as amended: after a successful write with a supplied non-empty title,
\* the file's text with the metadata block and the title heading block
\* stripped from the front equals the original content followed by exactly
\* one newline; an empty title is treated as no title, and then the text
\* after the metadata block is the content followed by one newline.
Thm_C11_RoundTrip ==
    ReturnedSuccess(1) =>
        /\ writers[1].title \notin {Undefined, ""} =>
                StripTitle(StripMetadata(FileText(writers[1].filePath)), writers[1].title)
                    = writers[1].content \o "\n"
        /\ writers[1].title = "" =>
                StripMetadata(FileText(writers[1].filePath)) = writers[1].content \o "\n"

Wit_C11_TitledRoundTrip ==
    /\ ReturnedSuccess(1)
    /\ writers[1].title = "Review"
    /\ writers[1].content = "Looks good.\n---\n# Notes\n"
    /\ StripTitle(StripMetadata(FileText(writers[1].filePath)), "Review")
            = "Looks good.\n---\n# Notes\n\n"

\* C12 as claimed: on every successful write the returned size equals the
\* byte length of the UTF-8 encoding of the full text written.
CE_C12_SizeIsByteLength ==
    ReturnedSuccess(1) =>
        writers[1].ret.size = Utf8ByteLength(FileText(writers[1].filePath))

\* C12 as amended: on every successful write the returned size equals the
\* length of the full text written counted in UTF-16 code units (the
\* "characters" of the returned message); it equals the UTF-8 byte length
\* when every character of the text takes one byte and is smaller otherwise.
HasOnlySingleByteCharacters(text) ==
    \A i \in 1..Len(text) : SubSeq(text, i, i) \notin TwoByteCharacters

Thm_C12_SizeIsStringLength ==
    ReturnedSuccess(1) =>
        LET text == FileText(writers[1].filePath)
        IN  /\ writers[1].ret.size = Len(text)
            /\ HasOnlySingleByteCharacters(text) =>
                    writers[1].ret.size = Utf8ByteLength(text)
            /\ ~HasOnlySingleByteCharacters(text) =>
                    writers[1].ret.size < Utf8ByteLength(text)

Wit_C12_MultiByteText ==
    /\ ReturnedSuccess(1)
    /\ writers[1].content = "caf~"
    /\ writers[1].ret.size = Len(FileText(writers[1].filePath))
    /\ Utf8ByteLength(FileText(writers[1].filePath)) = writers[1].ret.size + 1

\* C13: no call ends with an exception leaving the function: when mkdir or
\* the write rejects, the call returns success false with its filePath and a
\* non-empty error message; when both succeed it returns success true.
Thm_C13_NeverRaises ==
    \A p \in WriterIds :
        /\ writers[p].pc # "raised"
        /\ writers[p].pc = "returned" =>
            /\ writers[p].thrown # NoThrown =>
                /\ writers[p].ret.success = FALSE
                /\ writers[p].ret.filePath = writers[p].filePath
                /\ writers[p].ret.error \notin {Undefined, ""}
            /\ writers[p].thrown = NoThrown => writers[p].ret.success = TRUE

Wit_C13_MkdirRejected ==
    /\ writers[1].pc = "returned"
    /\ writers[1].timestamp = ""
    /\ writers[1].thrown = [isError |-> TRUE, message |-> "EACCES: permission denied"]
    /\ writers[1].ret.success = FALSE
    /\ writers[1].ret.error = "EACCES: permission denied"

Wit_C13_WriteRejected ==
    /\ writers[1].pc = "returned"
    /\ writers[1].timestamp # ""
    /\ writers[1].thrown.isError = FALSE
    /\ writers[1].thrown # NoThrown
    /\ writers[1].ret.error = "Unknown error occurred"

\* C14: after a sequence of successful writes to one path the file holds
\* exactly the assembled text of the last write, whether the text written
\* before was longer or shorter.
Thm_C14_LastWriteOnly ==
    ReturnedSuccess(1) => FileText(writers[1].filePath) = AssembledText(writers[1])

EarlierSuccessOnSamePath(w, k) ==
    /\ k \in 1..Len(w.earlier)
    /\ w.earlier[k].success
    /\ w.earlier[k].filePath = w.filePath

Wit_C14_ShorterAfterLonger ==
    /\ ReturnedSuccess(1)
    /\ EarlierSuccessOnSamePath(writers[1], Len(writers[1].earlier))
    /\ writers[1].earlier[Len(writers[1].earlier)].size > writers[1].ret.size
    /\ FileText(writers[1].filePath) = AssembledText(writers[1])

Wit_C14_LongerAfterShorter ==
    /\ ReturnedSuccess(1)
    /\ EarlierSuccessOnSamePath(writers[1], Len(writers[1].earlier))
    /\ writers[1].earlier[Len(writers[1].earlier)].size < writers[1].ret.size
    /\ FileText(writers[1].filePath) = AssembledText(writers[1])

\* C20: when two calls target the same path concurrently and both have
\* returned success, the file holds the complete assembled text of exactly
\* one of them, never a mixture of the two.
CE_C20_NoMixture ==
    (/\ ReturnedSuccess(1)
     /\ ReturnedSuccess(2)
     /\ writers[1].filePath = writers[2].filePath) =>
        FileText(writers[1].filePath) \in {AssembledText(writers[1]), AssembledText(writers[2])}

---------------------------------------------------------------------------
(* Claims about getGitHistory *)

\* The entry of rank k, newest first, of the log the repository reports.
ReportedEntry(k) == logEntry(repository.commits + 1 - k)

\* A call that returned the commits of a readable repository.
ReturnedCommits ==
    /\ historyCall.pc = "returned"
    /\ historyCall.thrown = NoThrown
    /\ repository.isRepository

\* C15: called with maxCount = N on a readable repository, getGitHistory
\* returns at most N commit records, in the order of the log (newest first),
\* each with the hash, date, message, author name and author e-mail of the
\* log entry of its rank.
CE_C15_AtMostMaxCount ==
    ReturnedCommits =>
        LET commits == historyCall.ret.commits
        IN  /\ Len(commits) <= historyCall.maxCount.whole
            /\ \A k \in 1..Len(commits) :
                /\ commits[k].hash = ReportedEntry(k).hash
                /\ commits[k].date = ReportedEntry(k).date
                /\ commits[k].message = ReportedEntry(k).message
                /\ commits[k].author = ReportedEntry(k).author_name
                /\ commits[k].email = ReportedEntry(k).author_email

\* C16: when opening the repository or reading the log fails, getGitHistory
\* returns an empty commit list with an error description and raises
\* nothing; a result carrying an error has no commits.
Thm_C16_ErrorGivesEmptyList ==
    /\ historyCall.pc # "raised"
    /\ historyCall.pc = "returned" =>
        /\ historyCall.thrown # NoThrown =>
            /\ historyCall.ret.commits = <<>>
            /\ historyCall.ret.error \notin {Undefined, ""}
        /\ ~repository.isRepository => historyCall.ret.error # Undefined
        /\ historyCall.ret.error # Undefined => historyCall.ret.commits = <<>>

Wit_C16_NotARepository ==
    /\ historyCall.pc = "returned"
    /\ ~repository.isRepository
    /\ repository.commits > 0
    /\ historyCall.thrown = [isError |-> TRUE, message |-> "fatal: not a git repository"]
    /\ historyCall.ret = [commits |-> <<>>, error |-> "fatal: not a git repository"]

\* C17: only a positive integer maxCount is accepted: a zero, negative or
\* non-integer maxCount is rejected and never reaches the log query; an
\* omitted maxCount makes the log query carry the limit 10.
IsPositiveInteger(n) == n.kind = "number" /\ ~n.plusHalf /\ n.whole >= 1

CE_C17_OnlyPositiveIntegers ==
    /\ (historyCall.raw.kind = "number" /\ ~IsPositiveInteger(historyCall.raw)) =>
            historyCall.pc \in {"schema", "rejected"}
    /\ \A k \in 1..Len(historyCall.logQueries) :
            IsPositiveInteger(historyCall.logQueries[k])
    /\ (historyCall.raw = OmittedNumber /\ historyCall.logQueries # <<>>) =>
            historyCall.logQueries = <<Number(10, FALSE)>>

---------------------------------------------------------------------------
(* Claims about getFileChangesInDirectory *)

\* The paths of a summary that are no exact member of {"dist", "bun.lock"},
\* in the summary's order.
RECURSIVE NotExactlyExcluded(_)
NotExactlyExcluded(fs) ==
    IF fs = <<>> THEN <<>>
    ELSE IF Head(fs) \in {"dist", "bun.lock"}
         THEN NotExactlyExcluded(Tail(fs))
         ELSE <<Head(fs)>> \o NotExactlyExcluded(Tail(fs))

\* C18: getFileChangesInDirectory returns exactly the files of the summary
\* whose path is no exact member of {"dist", "bun.lock"}, in the summary's
\* order, each path once and each with the diff text of a query filtered to
\* that path; an empty summary yields an empty ChangeSet and no error.
Thm_C18_KeptFilesInOrder ==
    collector.pc = "returned" =>
        LET kept == NotExactlyExcluded(worktree.files)
        IN  /\ Len(collector.ret) = Len(kept)
            /\ \A k \in 1..Len(kept) :
                /\ collector.ret[k].file = kept[k]
                /\ collector.diffQueries[k] = kept[k]
                /\ collector.ret[k].diff = diffText(kept[k])
            /\ Len(collector.diffQueries) = Len(kept)
            /\ \A i, j \in 1..Len(collector.ret) :
                    i # j => collector.ret[i].file # collector.ret[j].file
            /\ worktree.files = <<>> =>
                    collector.ret = <<>> /\ collector.thrown = NoThrown

Wit_C18_ExcludedInTheMiddle ==
    /\ collector.pc = "returned"
    /\ worktree.files = <<"README.md", "bun.lock", "src/a.ts">>
    /\ Len(collector.ret) = 2
    /\ collector.ret[1].file = "README.md"
    /\ collector.ret[2].file = "src/a.ts"

Wit_C18_EmptySummary ==
    collector.pc = "returned" /\ worktree.files = <<>> /\ collector.ret = <<>>

\* C19: no entry of the returned ChangeSet has a path inside dist/ (such as
\* "dist/index.js") or equal to "bun.lock".
CE_C19_NothingUnderDist ==
    collector.pc = "returned" =>
        \A k \in 1..Len(collector.ret) :
            /\ ~StartsWith(collector.ret[k].file, "dist/")
            /\ collector.ret[k].file # "bun.lock"

---------------------------------------------------------------------------
(* Claims about a failing git query *)

\* The call of getFileChangesInDirectory has had a query rejected.
CollectorQueryFailed == collector.thrown # NoThrown

\* The rejected query was the diff summary: no single-file query was made.
SummaryQueryFailed == CollectorQueryFailed /\ collector.diffQueries = <<>>

\* C21: once the diff-summary query or a single-file diff query has failed,
\* getFileChangesInDirectory has left with that error and has returned
\* nothing, although diffs may have been collected; the failing query is the
\* last one issued and no query was issued twice (one summary query, every
\* path queried at most once, the single-file queries being those of the
\* kept files up to the failing one). getGitHistory, when its query fails
\* with an error of the same kind, has returned an empty commit list with an
\* error field instead.
Thm_C21_QueryFailurePropagates ==
    /\ CollectorQueryFailed =>
        /\ collector.pc = "raised"
        /\ collector.thrown \in GitThrown
        /\ collector.ret = <<>>
        /\ collector.summaryQueries = 1
        /\ \A i, j \in 1..Len(collector.diffQueries) :
                i # j => collector.diffQueries[i] # collector.diffQueries[j]
        /\ ~SummaryQueryFailed =>
            /\ collector.index <= Len(worktree.files)
            /\ collector.diffQueries =
                    NotExactlyExcluded(SubSeq(worktree.files, 1, collector.index))
            /\ collector.diffQueries[Len(collector.diffQueries)] =
                    worktree.files[collector.index]
            /\ Len(collector.diffs) = Len(collector.diffQueries) - 1
    /\ collector.pc = "raised" => CollectorQueryFailed
    /\ historyCall.thrown # NoThrown =>
        /\ historyCall.pc = "returned"
        /\ historyCall.thrown \in GitThrown
        /\ historyCall.ret.commits = <<>>
        /\ historyCall.ret.error = historyErrorMessage(historyCall.thrown)
        /\ historyCall.ret.error # Undefined

\* A single-file query fails after one diff was collected, and the history
\* query has failed with the same error.
Wit_C21_SecondDiffFails ==
    /\ collector.pc = "raised"
    /\ worktree.files = <<"README.md", "bun.lock", "src/a.ts">>
    /\ collector.diffQueries = <<"README.md", "src/a.ts">>
    /\ Len(collector.diffs) = 1
    /\ collector.ret = <<>>
    /\ collector.thrown = [isError |-> TRUE, message |-> "fatal: not a git repository"]
    /\ historyCall.pc = "returned"
    /\ historyCall.thrown = collector.thrown
    /\ historyCall.ret = [commits |-> <<>>, error |-> "fatal: not a git repository"]

\* The diff-summary query itself fails.
Wit_C21_SummaryFails ==
    /\ collector.pc = "raised"
    /\ SummaryQueryFailed
    /\ collector.summaryQueries = 1
    /\ worktree.files # <<>>
    /\ collector.ret = <<>>

====
